---- MODULE Spec2Model ----
(***************************************************************************)
(* Q-Flash (postgres 9.6/q-flash.c): executor hooks that log the plan of   *)
(* eligible executions into a sink relation through SPI.                   *)
(*                                                                         *)
(* The model keeps the module's static variables under their C names, the  *)
(* executions in flight as a stack of frames (one per QueryDesc, innermost *)
(* last), and the engine's SPI bookkeeping as two counters.  The engine    *)
(* drives the four hooks; the insert issued by log_InRelation runs through *)
(* the same hooks as any other execution.                                  *)
(***************************************************************************)
EXTENDS Integers, Sequences, FiniteSets, TLC

VARIABLES
    qflash_enabled_status,      \* line 15
    qflash_log_min_duration,    \* line 16, msec
    qflash_log_hash,            \* line 17
    qflash_log_rel_name,        \* line 18
    qflash_log_namespace_name,  \* line 19
    qflash_log_namespace_oid,   \* line 20
    qflash_log_rel_oid,         \* line 21
    qflash_log_nested,          \* line 22
    nesting_level,              \* line 25
    nesting_spi_level,          \* line 26
    prev_ExecutorStart,         \* line 29
    prev_ExecutorRun,           \* line 30
    prev_ExecutorFinish,        \* line 31
    prev_ExecutorEnd,           \* line 32
    ExecutorStart_hook,         \* the engine's hook variables
    ExecutorRun_hook,
    ExecutorFinish_hook,
    ExecutorEnd_hook,
    loaded_over,    \* what the four hook variables held when _PG_init ran
    stack,          \* executions in flight, outermost first
    aborting,       \* the elog(ERROR) unwinding the stack, if any: where it was raised
    crashed,        \* the backend dereferenced a NULL totaltime
    spi_curid,      \* SPI_push calls minus SPI_pop calls of log_InRelation so far
    spi_connected,  \* connections log_InRelation holds open in this top-level operation
    endResult,      \* what the last returned explain_ExecutorEnd did
    completed       \* how the last top-level operation ended

vars == <<qflash_enabled_status, qflash_log_min_duration, qflash_log_hash,
          qflash_log_rel_name, qflash_log_namespace_name, qflash_log_namespace_oid,
          qflash_log_rel_oid, qflash_log_nested, nesting_level, nesting_spi_level,
          prev_ExecutorStart, prev_ExecutorRun, prev_ExecutorFinish,
          prev_ExecutorEnd, ExecutorStart_hook, ExecutorRun_hook,
          ExecutorFinish_hook, ExecutorEnd_hook, loaded_over,
          stack, aborting, crashed, spi_curid, spi_connected,
          endResult, completed>>

hooks == <<prev_ExecutorStart, prev_ExecutorRun, prev_ExecutorFinish,
           prev_ExecutorEnd, ExecutorStart_hook, ExecutorRun_hook,
           ExecutorFinish_hook, ExecutorEnd_hook, loaded_over>>

config == <<qflash_enabled_status, qflash_log_min_duration, qflash_log_hash,
            qflash_log_rel_name, qflash_log_namespace_name, qflash_log_namespace_oid,
            qflash_log_rel_oid, qflash_log_nested>>

-----------------------------------------------------------------------------
(* Bounds *)

\* executions in flight at once, the inserts of log_InRelation included
MaxDepth == 4
\* user executions in flight at once
MaxNest == 3
\* largest excess of SPI_pop over SPI_push calls, or of pushes over pops
MaxSkew == 2
\* largest measured total time, msec
MaxTime == 2
\* largest qflash.log_min_duration, msec
MaxDuration == 1

-----------------------------------------------------------------------------
(* The catalog the names are resolved against *)

InvalidOid == 0
TypeRelationId == 1247

\* schemas "a" and "b" exist, "x" does not
NamespaceNames == {"", "a", "b", "x"}
\* a.t, b.t and a.u exist; b.u does not
RelNames == {"", "t", "u"}
HashValues == {"", "h1"}

get_namespace_oid(nspname) ==
    CASE nspname = "a" -> 2200
      [] nspname = "b" -> 2201
      [] OTHER -> InvalidOid

get_relname_relid(relname, relnamespace) ==
    CASE relname = "t" /\ relnamespace = 2200 -> 16401
      [] relname = "t" /\ relnamespace = 2201 -> 16402
      [] relname = "u" /\ relnamespace = 2200 -> 16403
      [] relname = "orders" /\ relnamespace = 2200 -> 16404
      [] OTHER -> InvalidOid

\* a relation that is neither a sink candidate nor pg_type
OtherRelId == get_relname_relid("orders", get_namespace_oid("a"))
\* the relation a.t, the sink under the settings ("a", "t")
SinkRelId == get_relname_relid("t", get_namespace_oid("a"))

OidIsValid(oid) == oid # InvalidOid

-----------------------------------------------------------------------------
(* Sink resolution, lines 151-180 *)

\* the value of qflash_log_namespace_oid after the call, and the result
set_qflash_namespace_oid(namespace_name, nsoid) ==
    IF namespace_name = ""
    THEN [ok |-> FALSE, nsoid |-> nsoid]
    ELSE LET o == get_namespace_oid(namespace_name)
         IN  [ok |-> OidIsValid(o), nsoid |-> o]

\* the value of qflash_log_rel_oid after the call, and the result
set_qflash_relname_oid(relname_name, nsoid, reloid) ==
    IF ~OidIsValid(nsoid) \/ relname_name = ""
    THEN [ok |-> FALSE, reloid |-> reloid]
    ELSE LET o == get_relname_relid(relname_name, nsoid)
         IN  [ok |-> OidIsValid(o), reloid |-> o]

\* both cached oids after the call; .reloid is the value returned
get_qflash_log_rel_oid(nsoid, reloid) ==
    IF ~OidIsValid(reloid)
    THEN LET n == set_qflash_namespace_oid(qflash_log_namespace_name, nsoid).nsoid
             r == set_qflash_relname_oid(qflash_log_rel_name, n, reloid).reloid
         IN  [nsoid |-> n, reloid |-> r]
    ELSE [nsoid |-> nsoid, reloid |-> reloid]

-----------------------------------------------------------------------------
(* Eligibility, lines 182-201 *)

CMD_SELECT == "CMD_SELECT"
CMD_UPDATE == "CMD_UPDATE"
CMD_INSERT == "CMD_INSERT"
CMD_DELETE == "CMD_DELETE"
CMD_UTILITY == "CMD_UTILITY"

\* the nesting test left out of line 187
NestingAllowed_Always(level, nested) == TRUE

\* line 187
NestingAllowed(level, nested) == level = 0 \/ nested

\* line 189
OperationLogged(operation) ==
    operation \in {CMD_SELECT, CMD_UPDATE, CMD_INSERT, CMD_DELETE}

\* lines 191-199; relationOids is a sequence, NIL is <<>>
RecursionGuard(relationOids, reloid) ==
    \/ relationOids = <<>>
    \/ /\ Len(relationOids) > 0
       /\ Head(relationOids) # reloid
       /\ Head(relationOids) # TypeRelationId

\* the result, and both cached oids after the call (&& short-circuits, so the
\* lazy resolution runs only when the first two conjuncts hold)
qflash_enabled(queryDesc, nsoid, reloid) ==
    IF qflash_enabled_status /\ NestingAllowed(nesting_level, qflash_log_nested)
    THEN LET g == get_qflash_log_rel_oid(nsoid, reloid)
         IN  [res |-> /\ g.reloid # InvalidOid
                      /\ OperationLogged(queryDesc.operation)
                      /\ RecursionGuard(queryDesc.relationOids, g.reloid),
              nsoid |-> g.nsoid, reloid |-> g.reloid]
    ELSE [res |-> FALSE, nsoid |-> nsoid, reloid |-> reloid]

-----------------------------------------------------------------------------
(* Configuration interface, lines 203-228 *)

\* an assign hook that leaves the cached oids alone when turned off
enabled_GucAssign_NoReset(newval) ==
    /\ qflash_enabled_status' = newval
    /\ UNCHANGED <<qflash_log_rel_oid, qflash_log_namespace_oid,
                   qflash_log_min_duration, qflash_log_hash, qflash_log_rel_name,
                   qflash_log_namespace_name, qflash_log_nested>>

\* qflash.enabled: the assign hook runs, then the variable takes the value
enabled_GucAssign(newval) ==
    /\ qflash_enabled_status' = newval
    /\ IF newval
       THEN UNCHANGED <<qflash_log_rel_oid, qflash_log_namespace_oid>>
       ELSE /\ qflash_log_rel_oid' = InvalidOid
            /\ qflash_log_namespace_oid' = InvalidOid
    /\ UNCHANGED <<qflash_log_min_duration, qflash_log_hash, qflash_log_rel_name,
                   qflash_log_namespace_name, qflash_log_nested>>

\* qflash.log_namespace_name: the check hook runs; the string is assigned only
\* when the hook accepts it
namespace_GucCheck(newval) ==
    LET s == set_qflash_namespace_oid(newval, qflash_log_namespace_oid)
        refused == qflash_enabled_status /\ ~s.ok
    IN  /\ qflash_log_namespace_oid' =
               IF qflash_enabled_status THEN s.nsoid ELSE qflash_log_namespace_oid
        /\ qflash_log_namespace_name' =
               IF refused THEN qflash_log_namespace_name ELSE newval
        /\ UNCHANGED <<qflash_enabled_status, qflash_log_min_duration, qflash_log_hash,
                       qflash_log_rel_name, qflash_log_rel_oid, qflash_log_nested>>

\* qflash.log_relname
rel_GucCheck(newval) ==
    LET s == set_qflash_relname_oid(newval, qflash_log_namespace_oid, qflash_log_rel_oid)
        refused == qflash_enabled_status /\ ~s.ok
    IN  /\ qflash_log_rel_oid' =
               IF qflash_enabled_status THEN s.reloid ELSE qflash_log_rel_oid
        /\ qflash_log_rel_name' = IF refused THEN qflash_log_rel_name ELSE newval
        /\ UNCHANGED <<qflash_enabled_status, qflash_log_min_duration, qflash_log_hash,
                       qflash_log_namespace_name, qflash_log_namespace_oid,
                       qflash_log_nested>>

-----------------------------------------------------------------------------
(* The hook chain, lines 140-148 and 230-238 *)

\* what a hook variable may hold before the module is loaded: nothing, or the
\* handler of a module loaded earlier
OtherHandlers ==
    [Start : {"NULL", "other_ExecutorStart"}, Run : {"NULL", "other_ExecutorRun"},
     Finish : {"NULL", "other_ExecutorFinish"}, End : {"NULL", "other_ExecutorEnd"}]

\* _PG_init has not run
NotLoaded == [Start |-> "none", Run |-> "none", Finish |-> "none", End |-> "none"]

\* the handler a hook calls: the saved one, the native step when none was saved
\* (lines 250-251, 274-277, 297-300)
Chain(prev, native) == IF prev = "NULL" THEN native ELSE prev

\* the four hook variables hold the module's handlers
Installed ==
    /\ ExecutorStart_hook = "explain_ExecutorStart"
    /\ ExecutorRun_hook = "explain_ExecutorRun"
    /\ ExecutorFinish_hook = "explain_ExecutorFinish"
    /\ ExecutorEnd_hook = "explain_ExecutorEnd"

-----------------------------------------------------------------------------
(* Executions in flight *)

\* the executions the engine is asked to run: operation and relationOids
UserDescs ==
    { [operation |-> CMD_SELECT,  relationOids |-> <<>>],
      [operation |-> CMD_SELECT,  relationOids |-> <<OtherRelId>>],
      [operation |-> CMD_SELECT,  relationOids |-> <<SinkRelId>>],
      [operation |-> CMD_SELECT,  relationOids |-> <<OtherRelId, SinkRelId>>],
      [operation |-> CMD_UTILITY, relationOids |-> <<OtherRelId>>] }

\* the executions nested in one another
NestDescs ==
    { [operation |-> CMD_SELECT, relationOids |-> <<OtherRelId>>],
      [operation |-> CMD_SELECT, relationOids |-> <<SinkRelId>>] }

Top == stack[Len(stack)]
Rest(s) == SubSeq(s, 1, Len(s) - 1)
SetPc(s, pc) == [s EXCEPT ![Len(s)].pc = pc]
Frames == {stack[i] : i \in 1..Len(stack)}
Oids(relationOids) == {relationOids[i] : i \in 1..Len(relationOids)}

\* what a frame knows of its log_InRelation call
NoLog ==
    [branch |-> "none", connected |-> FALSE, released |-> FALSE,
     ctx_in |-> 0, ctx_out |-> 0, level |-> 0, spi_level |-> 0, nested |-> FALSE,
     t |-> 0, min_duration |-> 0, hash |-> "NULL", sink |-> InvalidOid,
     fault |-> "none", failed |-> "no"]

NoEnd == [outcome |-> "none"]
NoCompletion == [how |-> "none", src |-> "no", depth |-> 0]
NoAbort == [src |-> "no", depth |-> 0]

\* elog(ERROR) raised in the innermost frame
Raised(src) == [src |-> src, depth |-> Len(stack)]

Running == ~crashed /\ aborting = NoAbort

\* the engine's transaction end closes the connections left open
AtEOXact(s2, n) == IF s2 = <<>> THEN 0 ELSE n

\* what the end of the top-level operation leaves in `completed`
Completion(s2, how, raised) ==
    IF s2 = <<>>
    THEN [how |-> how, src |-> raised.src, depth |-> raised.depth]
    ELSE completed

\* the stack once the top frame's ExecutorEnd has returned.  When the frame
\* was the insert of log_InRelation, SPI_execute_plan returns in the frame
\* below with the row processed (line 406)
PopReturn(s) ==
    IF s[Len(s)].kind = "log"
    THEN [Rest(s) EXCEPT ![Len(s) - 1].pc = "spi_done", ![Len(s) - 1].nrec = @ + 1]
    ELSE Rest(s)

-----------------------------------------------------------------------------
(* explain_ExecutorStart, lines 240-263 *)

\* qflash_enabled runs before and after the delegated start; the QueryDesc
\* comes back from the delegate with totaltime NULL
explain_ExecutorStart(queryDesc, kind, below) ==
    LET e1 == qflash_enabled(queryDesc, qflash_log_namespace_oid, qflash_log_rel_oid)
        e2 == qflash_enabled(queryDesc, e1.nsoid, e1.reloid)
        f  == [kind |-> kind, operation |-> queryDesc.operation,
               relationOids |-> queryDesc.relationOids,
               totaltime |-> e2.res, pc |-> "started",
               nrec |-> 0, log |-> NoLog,
               called |-> [start  |-> Chain(prev_ExecutorStart, "standard_ExecutorStart"),
                           run    |-> "none",
                           finish |-> "none"]]
    IN  /\ ExecutorStart_hook = "explain_ExecutorStart"
        /\ stack' = Append(below, f)
        /\ qflash_log_namespace_oid' = e2.nsoid
        /\ qflash_log_rel_oid' = e2.reloid
        /\ endResult' = NoEnd
        /\ UNCHANGED <<qflash_enabled_status, qflash_log_min_duration, qflash_log_hash,
                       qflash_log_rel_name, qflash_log_namespace_name, qflash_log_nested,
                       nesting_level, nesting_spi_level, hooks, aborting,
                       crashed, spi_curid, spi_connected>>

\* the engine starts a top-level execution
StartTop(queryDesc) ==
    /\ Running
    /\ stack = <<>>
    /\ explain_ExecutorStart(queryDesc, "user", stack)
    /\ completed' = NoCompletion

\* a function or trigger of a running execution starts a nested one
StartNested(queryDesc) ==
    /\ Running
    /\ stack # <<>>
    /\ Len(stack) < MaxNest
    /\ Top.kind = "user"
    /\ Top.pc \in {"running", "finishing"}
    /\ explain_ExecutorStart(queryDesc, "user", stack)
    /\ UNCHANGED completed

-----------------------------------------------------------------------------
(* explain_ExecutorRun, lines 268-286; explain_ExecutorFinish, lines 291-309 *)

\* nesting_level++ (lines 271, 294)
EnterLevel(level) == level + 1
\* a normal path without the decrement
LeaveLevel_NoDecrement(level) == level

\* nesting_level-- on the normal path (lines 278, 301)
LeaveLevel(level) == level - 1
\* a PG_CATCH that re-throws without the decrement
CatchLevel_NoDecrement(level) == level

\* nesting_level-- in PG_CATCH, before PG_RE_THROW (lines 282, 305)
CatchLevel(level) == level - 1

RunEnter ==
    /\ Running
    /\ stack # <<>>
    /\ Top.pc = "started"
    /\ ExecutorRun_hook = "explain_ExecutorRun"
    /\ nesting_level' = EnterLevel(nesting_level)
    /\ stack' = [SetPc(stack, "running") EXCEPT ![Len(stack)].called.run =
                     Chain(prev_ExecutorRun, "standard_ExecutorRun")]
    /\ UNCHANGED <<config, nesting_spi_level, hooks, aborting, crashed,
                   spi_curid, spi_connected, endResult, completed>>

\* the delegated run returns
RunExit ==
    /\ Running
    /\ stack # <<>>
    /\ Top.pc = "running"
    /\ nesting_level' = LeaveLevel(nesting_level)
    /\ stack' = SetPc(stack, "ran")
    /\ UNCHANGED <<config, nesting_spi_level, hooks, aborting, crashed,
                   spi_curid, spi_connected, endResult, completed>>

\* the delegated run raises
RunAbort ==
    /\ Running
    /\ stack # <<>>
    /\ Top.pc = "running"
    /\ aborting' = Raised("run")
    /\ UNCHANGED <<config, nesting_level, nesting_spi_level, hooks, stack,
                   crashed, spi_curid, spi_connected, endResult, completed>>

FinishEnter ==
    /\ Running
    /\ stack # <<>>
    /\ Top.pc = "ran"
    /\ ExecutorFinish_hook = "explain_ExecutorFinish"
    /\ nesting_level' = EnterLevel(nesting_level)
    /\ stack' = [SetPc(stack, "finishing") EXCEPT ![Len(stack)].called.finish =
                     Chain(prev_ExecutorFinish, "standard_ExecutorFinish")]
    /\ UNCHANGED <<config, nesting_spi_level, hooks, aborting, crashed,
                   spi_curid, spi_connected, endResult, completed>>

FinishExit ==
    /\ Running
    /\ stack # <<>>
    /\ Top.pc = "finishing"
    /\ nesting_level' = LeaveLevel(nesting_level)
    /\ stack' = SetPc(stack, "finished")
    /\ UNCHANGED <<config, nesting_spi_level, hooks, aborting, crashed,
                   spi_curid, spi_connected, endResult, completed>>

FinishAbort ==
    /\ Running
    /\ stack # <<>>
    /\ Top.pc = "finishing"
    /\ aborting' = Raised("finish")
    /\ UNCHANGED <<config, nesting_level, nesting_spi_level, hooks, stack,
                   crashed, spi_curid, spi_connected, endResult, completed>>

\* the error leaves the innermost frame: through PG_CATCH when the frame is
\* inside explain_ExecutorRun or explain_ExecutorFinish, straight through
\* explain_ExecutorEnd and log_InRelation otherwise
Unwind ==
    /\ ~crashed
    /\ aborting # NoAbort
    /\ stack # <<>>
    /\ nesting_level' = IF Top.pc \in {"running", "finishing"}
                        THEN CatchLevel(nesting_level)
                        ELSE nesting_level
    /\ stack' = Rest(stack)
    /\ aborting' = IF Rest(stack) = <<>> THEN NoAbort ELSE aborting
    /\ completed' = Completion(Rest(stack), "abort", aborting)
    /\ spi_curid' = spi_curid
    /\ spi_connected' = AtEOXact(Rest(stack), spi_connected)
    /\ UNCHANGED <<config, nesting_spi_level, hooks, crashed, endResult>>

-----------------------------------------------------------------------------
(* log_InRelation, lines 365-415 *)

\* nulls[3] always ' ': an empty hash stored as the empty string
HashParam_NeverNull(hash) == hash

\* line 371: nulls[3], and the value stored in the hash column
HashParam(hash) == IF hash = "" THEN "NULL" ELSE hash

\* lines 382-397: the depth comparison.  SPI_push and SPI_pop move the
\* engine's current-procedure index; SPI_connect is reached through the else
\* of the second test only
SpiPushes(spi_level, level) == spi_level < level

\* a push that leaves nesting_spi_level as it was
SpiLevelAfterPush_Stale(spi_level, level) == spi_level

\* nesting_spi_level after lines 382-386
SpiLevelAfterPush(spi_level, level) ==
    IF SpiPushes(spi_level, level) THEN level ELSE spi_level
SpiPops(spi_level, level) == SpiLevelAfterPush(spi_level, level) > level
\* nesting_spi_level after lines 388-392
SpiLevelAfterPop(spi_level, level) ==
    IF SpiPops(spi_level, level) THEN level ELSE SpiLevelAfterPush(spi_level, level)
SpiConnects(spi_level, level) == ~SpiPops(spi_level, level)

SpiBranch(spi_level, level) ==
    CASE SpiPushes(spi_level, level) -> "push"
      [] SpiPops(spi_level, level)   -> "pop"
      [] OTHER                       -> "equal"

\* the current-procedure index after lines 382-392
SpiCurid(curid, spi_level, level) ==
    curid + (IF SpiPushes(spi_level, level) THEN 1 ELSE 0)
          - (IF SpiPops(spi_level, level) THEN 1 ELSE 0)

\* line 413: SPI_finish closes the innermost connection log_InRelation holds;
\* when it holds none, the connection it closes is not one of those counted
SPI_finish(connected) == IF connected > 0 THEN connected - 1 ELSE 0

\* the relation the text of generate_insert_log_query names (line 422)
InsertTarget ==
    get_relname_relid(qflash_log_rel_name, get_namespace_oid(qflash_log_namespace_name))

\* what the engine may answer: SPI_connect refuses, SPI_prepare yields no plan
SpiFaults == {"none", "connect", "prepare"}

\* the test of spi_plan == NULL left out of lines 401-404
SpiError_PrepareUnchecked(fault, connects, target) ==
    IF connects /\ fault = "connect" THEN "connect" ELSE "no"

\* lines 393-404: the step whose elog(ERROR) ends the call, "no" when none.
\* SPI_prepare also fails when the relation named in the text does not exist
SpiError(fault, connects, target) ==
    CASE connects /\ fault = "connect"                -> "connect"
      [] fault = "prepare" \/ ~OidIsValid(target)     -> "prepare"
      [] OTHER                                        -> "no"

-----------------------------------------------------------------------------
(* explain_ExecutorEnd, lines 312-363 *)

\* line 324: the execution is dropped
BelowMinDuration(t, min_duration) == t <= min_duration

\* lines 359-360
Delegate(prev) == IF prev = "NULL" THEN "standard_ExecutorEnd" ELSE prev

\* what the hook did, for the frame f it ran on at nesting_level `level`
EndReport(outcome, delegate, f, sink) ==
    [outcome |-> outcome, delegate |-> delegate, kind |-> f.kind,
     operation |-> f.operation, relationOids |-> f.relationOids,
     totaltime |-> f.totaltime, level |-> nesting_level,
     enabled |-> qflash_enabled_status, nested |-> qflash_log_nested,
     sink |-> sink, nrec |-> f.nrec, log |-> f.log, called |-> f.called]

\* the hook returns: the frame is gone, the engine resumes what is below
EndReturn(report) ==
    /\ stack' = PopReturn(stack)
    /\ endResult' = report
    /\ completed' = Completion(Rest(stack), "ok", NoAbort)
    /\ spi_curid' = spi_curid

\* line 319 finds the execution not eligible: lines 359-360 only
EndIneligible ==
    /\ Running
    /\ stack # <<>>
    /\ Top.pc = "finished"
    /\ ExecutorEnd_hook = "explain_ExecutorEnd"
    /\ LET e == qflash_enabled(Top, qflash_log_namespace_oid, qflash_log_rel_oid)
       IN  /\ ~e.res
           /\ qflash_log_namespace_oid' = e.nsoid
           /\ qflash_log_rel_oid' = e.reloid
           /\ EndReturn(EndReport("ineligible", Delegate(prev_ExecutorEnd), Top, e.reloid))
    /\ spi_connected' = AtEOXact(Rest(stack), spi_connected)
    /\ UNCHANGED <<qflash_enabled_status, qflash_log_min_duration, qflash_log_hash,
                   qflash_log_rel_name, qflash_log_namespace_name, qflash_log_nested,
                   nesting_level, nesting_spi_level, hooks, aborting, crashed>>

\* line 322 on an eligible execution that has no totaltime: InstrEndLoop
\* dereferences NULL
EndCrash ==
    /\ Running
    /\ stack # <<>>
    /\ Top.pc = "finished"
    /\ ExecutorEnd_hook = "explain_ExecutorEnd"
    /\ ~Top.totaltime
    /\ LET e == qflash_enabled(Top, qflash_log_namespace_oid, qflash_log_rel_oid)
       IN  /\ e.res
           /\ qflash_log_namespace_oid' = e.nsoid
           /\ qflash_log_rel_oid' = e.reloid
    /\ crashed' = TRUE
    /\ UNCHANGED <<qflash_enabled_status, qflash_log_min_duration, qflash_log_hash,
                   qflash_log_rel_name, qflash_log_namespace_name, qflash_log_nested,
                   nesting_level, nesting_spi_level, hooks, stack, aborting,
                   spi_curid, spi_connected, endResult, completed>>

\* lines 324-325: the measured time t does not pass the filter
EndDropped(t) ==
    /\ Running
    /\ stack # <<>>
    /\ Top.pc = "finished"
    /\ ExecutorEnd_hook = "explain_ExecutorEnd"
    /\ Top.totaltime
    /\ BelowMinDuration(t, qflash_log_min_duration)
    /\ LET e == qflash_enabled(Top, qflash_log_namespace_oid, qflash_log_rel_oid)
           f == [Top EXCEPT !.log.t = t,
                            !.log.min_duration = qflash_log_min_duration]
       IN  /\ e.res
           /\ qflash_log_namespace_oid' = e.nsoid
           /\ qflash_log_rel_oid' = e.reloid
           /\ EndReturn(EndReport("dropped", "none", f, e.reloid))
    /\ spi_connected' = AtEOXact(Rest(stack), spi_connected)
    /\ UNCHANGED <<qflash_enabled_status, qflash_log_min_duration, qflash_log_hash,
                   qflash_log_rel_name, qflash_log_namespace_name, qflash_log_nested,
                   nesting_level, nesting_spi_level, hooks, aborting, crashed>>

\* lines 327-353 and log_InRelation up to SPI_prepare (lines 365-404)
EndPersist(t, fault) ==
    /\ Running
    /\ stack # <<>>
    /\ Top.pc = "finished"
    /\ ExecutorEnd_hook = "explain_ExecutorEnd"
    /\ Top.totaltime
    /\ ~BelowMinDuration(t, qflash_log_min_duration)
    /\ LET e == qflash_enabled(Top, qflash_log_namespace_oid, qflash_log_rel_oid)
           connects == SpiConnects(nesting_spi_level, nesting_level)
           curid == SpiCurid(spi_curid, nesting_spi_level, nesting_level)
           error == SpiError(fault, connects, InsertTarget)
           l == [branch |-> SpiBranch(nesting_spi_level, nesting_level),
                 connected |-> connects /\ error # "connect",
                 released |-> FALSE,
                 ctx_in |-> spi_curid,
                 ctx_out |-> curid,
                 level |-> nesting_level,
                 spi_level |-> nesting_spi_level,
                 nested |-> qflash_log_nested,
                 t |-> t,
                 min_duration |-> qflash_log_min_duration,
                 hash |-> HashParam(qflash_log_hash),
                 sink |-> e.reloid,
                 fault |-> IF fault = "connect" /\ ~connects THEN "none" ELSE fault,
                 failed |-> error]
       IN  /\ e.res
           /\ curid \in -MaxSkew..MaxSkew
           /\ qflash_log_namespace_oid' = e.nsoid
           /\ qflash_log_rel_oid' = e.reloid
           /\ nesting_spi_level' = SpiLevelAfterPop(nesting_spi_level, nesting_level)
           /\ spi_curid' = curid
           /\ spi_connected' = IF l.connected THEN spi_connected + 1 ELSE spi_connected
           /\ stack' = [stack EXCEPT ![Len(stack)].log = l,
                                     ![Len(stack)].pc = "spi_execute"]
           /\ aborting' = IF error = "no" THEN NoAbort ELSE Raised("persist")
    /\ UNCHANGED <<qflash_enabled_status, qflash_log_min_duration, qflash_log_hash,
                   qflash_log_rel_name, qflash_log_namespace_name, qflash_log_nested,
                   nesting_level, hooks, crashed, endResult, completed>>

\* line 406: SPI_execute_plan starts the insert, which enters the hooks
InsertStart ==
    /\ Running
    /\ stack # <<>>
    /\ Len(stack) < MaxDepth
    /\ Top.pc = "spi_execute"
    /\ explain_ExecutorStart([operation |-> CMD_INSERT, relationOids |-> <<InsertTarget>>],
                             "log", SetPc(stack, "spi_wait"))
    /\ UNCHANGED completed

\* lines 408-411: SPI_execute_plan reports failure
ExecuteFails ==
    /\ Running
    /\ stack # <<>>
    /\ Top.pc = "spi_execute"
    /\ aborting' = Raised("persist")
    /\ stack' = [stack EXCEPT ![Len(stack)].log.fault = "execute",
                              ![Len(stack)].log.failed = "execute"]
    /\ UNCHANGED <<config, nesting_level, nesting_spi_level, hooks, crashed,
                   spi_curid, spi_connected, endResult, completed>>

\* lines 413-414 and 355-362: SPI_finish, then the delegated end
EndFinish(finishOk) ==
    /\ Running
    /\ stack # <<>>
    /\ Top.pc = "spi_done"
    /\ IF finishOk
       THEN /\ EndReturn(EndReport("persisted", Delegate(prev_ExecutorEnd),
                                   [Top EXCEPT !.log.released = TRUE,
                                               !.log.ctx_out = spi_curid],
                                   Top.log.sink))
            /\ spi_connected' = AtEOXact(Rest(stack), SPI_finish(spi_connected))
            /\ UNCHANGED aborting
       ELSE /\ aborting' = Raised("persist")
            /\ stack' = [stack EXCEPT ![Len(stack)].log.failed = "finish"]
            /\ UNCHANGED <<endResult, completed, spi_curid, spi_connected>>
    /\ UNCHANGED <<config, nesting_level, nesting_spi_level, hooks, crashed>>

-----------------------------------------------------------------------------
(* The configuration registry sets a variable between statements, or from a
   function of a running execution (set_config) *)

CanSet ==
    /\ Running
    /\ loaded_over # NotLoaded
    /\ IF stack = <<>> THEN TRUE ELSE Top.kind = "user" /\ Top.pc = "running"

SetEnabled(newval) ==
    /\ CanSet
    /\ enabled_GucAssign(newval)
    /\ UNCHANGED <<nesting_level, nesting_spi_level, hooks, stack, aborting,
                   crashed, spi_curid, spi_connected, endResult, completed>>

SetNamespace(newval) ==
    /\ CanSet
    /\ namespace_GucCheck(newval)
    /\ UNCHANGED <<nesting_level, nesting_spi_level, hooks, stack, aborting,
                   crashed, spi_curid, spi_connected, endResult, completed>>

SetRelname(newval) ==
    /\ CanSet
    /\ rel_GucCheck(newval)
    /\ UNCHANGED <<nesting_level, nesting_spi_level, hooks, stack, aborting,
                   crashed, spi_curid, spi_connected, endResult, completed>>

\* qflash.log_min_duration, qflash.log_hash, qflash.log_nested have no hooks
SetMinDuration(newval) ==
    /\ CanSet
    /\ qflash_log_min_duration' = newval
    /\ UNCHANGED <<qflash_enabled_status, qflash_log_hash, qflash_log_rel_name,
                   qflash_log_namespace_name, qflash_log_namespace_oid,
                   qflash_log_rel_oid, qflash_log_nested,
                   nesting_level, nesting_spi_level, hooks, stack, aborting,
                   crashed, spi_curid, spi_connected, endResult, completed>>

SetHash(newval) ==
    /\ CanSet
    /\ qflash_log_hash' = newval
    /\ UNCHANGED <<qflash_enabled_status, qflash_log_min_duration, qflash_log_rel_name,
                   qflash_log_namespace_name, qflash_log_namespace_oid,
                   qflash_log_rel_oid, qflash_log_nested,
                   nesting_level, nesting_spi_level, hooks, stack, aborting,
                   crashed, spi_curid, spi_connected, endResult, completed>>

SetNested(newval) ==
    /\ CanSet
    /\ qflash_log_nested' = newval
    /\ UNCHANGED <<qflash_enabled_status, qflash_log_min_duration, qflash_log_hash,
                   qflash_log_rel_name, qflash_log_namespace_name,
                   qflash_log_namespace_oid, qflash_log_rel_oid,
                   nesting_level, nesting_spi_level, hooks, stack, aborting,
                   crashed, spi_curid, spi_connected, endResult, completed>>

-----------------------------------------------------------------------------
(* Loading and unloading the module *)

\* lines 140-148; the GUC variables it defines keep their boot values
_PG_init ==
    /\ Running
    /\ stack = <<>>
    /\ loaded_over = NotLoaded
    /\ prev_ExecutorStart' = ExecutorStart_hook
    /\ ExecutorStart_hook' = "explain_ExecutorStart"
    /\ prev_ExecutorRun' = ExecutorRun_hook
    /\ ExecutorRun_hook' = "explain_ExecutorRun"
    /\ prev_ExecutorFinish' = ExecutorFinish_hook
    /\ ExecutorFinish_hook' = "explain_ExecutorFinish"
    /\ prev_ExecutorEnd' = ExecutorEnd_hook
    /\ ExecutorEnd_hook' = "explain_ExecutorEnd"
    /\ loaded_over' = [Start |-> ExecutorStart_hook, Run |-> ExecutorRun_hook,
                       Finish |-> ExecutorFinish_hook, End |-> ExecutorEnd_hook]
    /\ UNCHANGED <<config, nesting_level, nesting_spi_level, stack, aborting, crashed,
                   spi_curid, spi_connected, endResult, completed>>

\* lines 230-238, between statements
_PG_fini ==
    /\ Running
    /\ stack = <<>>
    /\ Installed
    /\ ExecutorStart_hook' = prev_ExecutorStart
    /\ ExecutorRun_hook' = prev_ExecutorRun
    /\ ExecutorFinish_hook' = prev_ExecutorFinish
    /\ ExecutorEnd_hook' = prev_ExecutorEnd
    /\ UNCHANGED <<config, nesting_level, nesting_spi_level, stack, aborting, crashed,
                   spi_curid, spi_connected, endResult, completed,
                   prev_ExecutorStart, prev_ExecutorRun, prev_ExecutorFinish,
                   prev_ExecutorEnd, loaded_over>>

-----------------------------------------------------------------------------
(* The module after _PG_init (lines 104-149): the boot values of the
   variables, and whatever ExecutorEnd_hook held at load time in
   prev_ExecutorEnd *)

Init ==
    /\ qflash_enabled_status = FALSE
    /\ qflash_log_min_duration = 0
    /\ qflash_log_hash = ""
    /\ qflash_log_rel_name = ""
    /\ qflash_log_namespace_name = ""
    /\ qflash_log_namespace_oid = InvalidOid
    /\ qflash_log_rel_oid = InvalidOid
    /\ qflash_log_nested = FALSE
    /\ nesting_level = 0
    /\ nesting_spi_level = 0
    /\ prev_ExecutorStart = "NULL"
    /\ prev_ExecutorRun = "NULL"
    /\ prev_ExecutorFinish = "NULL"
    /\ prev_ExecutorEnd \in {"NULL", "other_ExecutorEnd"}
    /\ Installed
    /\ loaded_over = [Start |-> prev_ExecutorStart, Run |-> prev_ExecutorRun,
                      Finish |-> prev_ExecutorFinish, End |-> prev_ExecutorEnd]
    /\ stack = <<>>
    /\ aborting = NoAbort
    /\ crashed = FALSE
    /\ spi_curid = 0
    /\ spi_connected = 0
    /\ endResult = NoEnd
    /\ completed = NoCompletion

Next ==
    \/ \E d \in UserDescs : StartTop(d)
    \/ RunEnter
    \/ RunExit
    \/ RunAbort
    \/ FinishEnter
    \/ FinishExit
    \/ FinishAbort
    \/ Unwind
    \/ EndIneligible
    \/ EndCrash
    \/ \E t \in 0..MaxTime : EndDropped(t)
    \/ \E t \in 0..MaxTime, fault \in SpiFaults : EndPersist(t, fault)
    \/ InsertStart
    \/ ExecuteFails
    \/ \E ok \in BOOLEAN : EndFinish(ok)
    \/ \E b \in BOOLEAN : SetEnabled(b)
    \/ \E n \in NamespaceNames : SetNamespace(n)
    \/ \E r \in RelNames : SetRelname(r)
    \/ \E d \in 0..MaxDuration : SetMinDuration(d)
    \/ \E h \in HashValues : SetHash(h)
    \/ \E b \in BOOLEAN : SetNested(b)

\* Statements run one after another at top level, under every setting
Spec == Init /\ [][Next]_vars

-----------------------------------------------------------------------------
(* Nested executions.  The sink settings are those left by
     SET qflash.log_namespace_name = 'a'; SET qflash.log_relname = 't';
   issued while qflash.enabled is off; functions of running executions start
   further executions and switch qflash.enabled and qflash.log_nested *)

InitNest ==
    /\ qflash_enabled_status = FALSE
    /\ qflash_log_min_duration = 0
    /\ qflash_log_hash = ""
    /\ qflash_log_rel_name = "t"
    /\ qflash_log_namespace_name = "a"
    /\ qflash_log_namespace_oid = InvalidOid
    /\ qflash_log_rel_oid = InvalidOid
    /\ qflash_log_nested = FALSE
    /\ nesting_level = 0
    /\ nesting_spi_level = 0
    /\ prev_ExecutorStart = "NULL"
    /\ prev_ExecutorRun = "NULL"
    /\ prev_ExecutorFinish = "NULL"
    /\ prev_ExecutorEnd = "NULL"
    /\ Installed
    /\ loaded_over = [Start |-> prev_ExecutorStart, Run |-> prev_ExecutorRun,
                      Finish |-> prev_ExecutorFinish, End |-> prev_ExecutorEnd]
    /\ stack = <<>>
    /\ aborting = NoAbort
    /\ crashed = FALSE
    /\ spi_curid = 0
    /\ spi_connected = 0
    /\ endResult = NoEnd
    /\ completed = NoCompletion

NextNest ==
    \/ \E d \in NestDescs : StartTop(d)
    \/ \E d \in NestDescs : StartNested(d)
    \/ RunEnter
    \/ RunExit
    \/ RunAbort
    \/ FinishEnter
    \/ FinishExit
    \/ FinishAbort
    \/ Unwind
    \/ EndIneligible
    \/ EndCrash
    \/ \E t \in 0..MaxTime : EndDropped(t)
    \/ \E t \in 0..MaxTime, fault \in SpiFaults : EndPersist(t, fault)
    \/ InsertStart
    \/ ExecuteFails
    \/ \E ok \in BOOLEAN : EndFinish(ok)
    \/ \E b \in BOOLEAN : SetEnabled(b)
    \/ \E b \in BOOLEAN : SetNested(b)

SpecNest == InitNest /\ [][NextNest]_vars

-----------------------------------------------------------------------------
(* Loading over whatever the hook variables hold, and unloading.  The static
   variables have their initializers (lines 15-32) until _PG_init runs *)

InitHooks ==
    /\ qflash_enabled_status = FALSE
    /\ qflash_log_min_duration = 0
    /\ qflash_log_hash = ""
    /\ qflash_log_rel_name = ""
    /\ qflash_log_namespace_name = ""
    /\ qflash_log_namespace_oid = InvalidOid
    /\ qflash_log_rel_oid = InvalidOid
    /\ qflash_log_nested = FALSE
    /\ nesting_level = 0
    /\ nesting_spi_level = 0
    /\ prev_ExecutorStart = "NULL"
    /\ prev_ExecutorRun = "NULL"
    /\ prev_ExecutorFinish = "NULL"
    /\ prev_ExecutorEnd = "NULL"
    /\ \E h \in OtherHandlers :
           /\ ExecutorStart_hook = h.Start
           /\ ExecutorRun_hook = h.Run
           /\ ExecutorFinish_hook = h.Finish
           /\ ExecutorEnd_hook = h.End
    /\ loaded_over = NotLoaded
    /\ stack = <<>>
    /\ aborting = NoAbort
    /\ crashed = FALSE
    /\ spi_curid = 0
    /\ spi_connected = 0
    /\ endResult = NoEnd
    /\ completed = NoCompletion

NextHooks ==
    \/ _PG_init
    \/ _PG_fini
    \/ \E d \in NestDescs : StartTop(d)
    \/ RunEnter
    \/ RunExit
    \/ RunAbort
    \/ FinishEnter
    \/ FinishExit
    \/ FinishAbort
    \/ Unwind
    \/ EndIneligible
    \/ EndCrash
    \/ \E t \in 0..MaxTime : EndDropped(t)
    \/ \E t \in 0..MaxTime, fault \in SpiFaults : EndPersist(t, fault)
    \/ InsertStart
    \/ ExecuteFails
    \/ \E ok \in BOOLEAN : EndFinish(ok)
    \/ \E b \in BOOLEAN : SetEnabled(b)
    \/ \E n \in NamespaceNames : SetNamespace(n)
    \/ \E r \in RelNames : SetRelname(r)

SpecHooks == InitHooks /\ [][NextHooks]_vars

-----------------------------------------------------------------------------
(* Properties *)

\* C1: no record is persisted for an execution whose relationOids contain the
\* oid of the sink relation, at whatever position of the list.
C1_RecursionFreedom ==
    \A f \in Frames : f.nrec > 0 => f.log.sink \notin Oids(f.relationOids)

\* C2: the insert issued by log_InRelation is never eligible: its own
\* ExecutorEnd never enters log_InRelation, so one record is written and the
\* hook returns.
C2_InsertNeverEligible ==
    \A f \in Frames : f.kind = "log" => (f.log.branch = "none" /\ f.nrec = 0)

\* C3: whenever no execution is in flight (a top-level operation has returned
\* or aborted), nesting_level is 0.
C3_DepthZeroAfterTopLevel == stack = <<>> => nesting_level = 0

\* a top-level operation has ended by an error raised in the finish step of
\* an execution nested in it
C3_Witness ==
    /\ stack = <<>>
    /\ completed.how = "abort"
    /\ completed.src = "finish"
    /\ completed.depth >= 2
    /\ nesting_level = 0

\* C4: an eligible execution measured at t with qflash.log_min_duration = D
\* is dropped only when t < D, and when t >= D exactly one record is written.
C4_DurationFilter ==
    /\ endResult.outcome = "dropped" => endResult.log.t < endResult.log.min_duration
    /\ endResult.outcome = "persisted" =>
           (endResult.log.t >= endResult.log.min_duration /\ endResult.nrec = 1)

\* C5: every explain_ExecutorEnd that returns has called prev_ExecutorEnd, or
\* standard_ExecutorEnd when there is none.
C5_EndAlwaysDelegates ==
    endResult.outcome # "none" => endResult.delegate = Delegate(prev_ExecutorEnd)

\* C6: a log_InRelation that returns leaves the engine's current-procedure
\* index (the ambient connection context) where it found it.
C6_ConnectionContextRestored ==
    endResult.outcome = "persisted" => endResult.log.ctx_out = endResult.log.ctx_in

\* the eligibility conditions of qflash_enabled other than the nesting test,
\* on the report r of a returned hook
OtherwiseEligible(r) ==
    /\ r.enabled
    /\ r.sink # InvalidOid
    /\ r.operation \in {CMD_SELECT, CMD_UPDATE, CMD_INSERT, CMD_DELETE}
    /\ \/ r.relationOids = <<>>
       \/ r.relationOids[1] \notin {r.sink, TypeRelationId}

C8_PersistFailureFatal ==
    /\ [](\A f \in Frames :
             f.log.fault # "none" =>
                 /\ aborting = [src |-> "persist", depth |-> Len(stack)]
                 /\ f = Top
                 /\ f.log.failed = f.log.fault
                 /\ f.nrec = 0)
    /\ [][aborting # NoAbort =>
             /\ stack' = Rest(stack)
             /\ completed'.how # "ok"
             /\ stack' = <<>> => completed'.how = "abort"]_vars

\* SPI_execute_plan has failed for a nested execution
C8_Witness ==
    \E f \in Frames :
        /\ f.log.fault = "execute"
        /\ f.log.level > 0
        /\ aborting.src = "persist"
        /\ f.nrec = 0

\* C9: the cached qflash_log_rel_oid is valid only if the cached
\* qflash_log_namespace_oid is valid.
C9_RelValidOnlyIfNamespaceValid ==
    OidIsValid(qflash_log_rel_oid) => OidIsValid(qflash_log_namespace_oid)

\* C10: a valid cached qflash_log_rel_oid is the oid of the relation that
\* qflash_log_namespace_name.qflash_log_rel_name currently names.
C10_CachedSinkIsNamedSink ==
    OidIsValid(qflash_log_rel_oid) => qflash_log_rel_oid = InsertTarget

\* a resolution attempted at set-time while enabled fails, or the lazy
\* resolution of an eligibility check fails, in this step
FailedResolution ==
    \/ \E n \in NamespaceNames :
           /\ SetNamespace(n)
           /\ qflash_enabled_status
           /\ ~set_qflash_namespace_oid(n, qflash_log_namespace_oid).ok
    \/ \E r \in RelNames :
           /\ SetRelname(r)
           /\ qflash_enabled_status
           /\ ~set_qflash_relname_oid(r, qflash_log_namespace_oid, qflash_log_rel_oid).ok
    \/ /\ \/ \E d \in UserDescs : StartTop(d)
          \/ InsertStart
          \/ EndIneligible
       /\ qflash_enabled_status
       /\ NestingAllowed(nesting_level, qflash_log_nested)
       /\ ~OidIsValid(qflash_log_rel_oid)
       /\ ~OidIsValid(qflash_log_rel_oid')

\* C11: a failed resolution of the sink namespace or relation, at set-time
\* while enabled or lazily in qflash_enabled, leaves both cached oids
\* invalid; and no execution is found eligible while the relation oid is
\* invalid (no log_InRelation, no record, no drop by duration).
C11_FailedResolutionLeavesUnset ==
    /\ [][FailedResolution =>
             /\ qflash_log_namespace_oid' = InvalidOid
             /\ qflash_log_rel_oid' = InvalidOid]_vars
    /\ [](/\ endResult.outcome \in {"dropped", "persisted"} => OidIsValid(endResult.sink)
          /\ \A f \in Frames : f.log.branch # "none" => OidIsValid(f.log.sink))

\* C12: whenever qflash.enabled is off both cached oids are invalid: turning
\* it off resets them, and no SET of a sink name and no eligibility check
\* made while it is off makes either one valid.
C12_DisabledMeansUnresolved ==
    ~qflash_enabled_status =>
        /\ qflash_log_namespace_oid = InvalidOid
        /\ qflash_log_rel_oid = InvalidOid

\* qflash.enabled was turned off inside an execution that started eligible,
\* hence with the sink resolved
C12_Witness ==
    /\ ~qflash_enabled_status
    /\ stack # <<>>
    /\ Top.totaltime
    /\ Top.pc = "running"
    /\ OidIsValid(InsertTarget)
    /\ qflash_log_namespace_oid = InvalidOid
    /\ qflash_log_rel_oid = InvalidOid

\* the handlers recorded at install, as the hooks chain to them
RecordedChain ==
    [start  |-> Chain(loaded_over.Start, "standard_ExecutorStart"),
     run    |-> Chain(loaded_over.Run, "standard_ExecutorRun"),
     finish |-> Chain(loaded_over.Finish, "standard_ExecutorFinish")]

\* C13: _PG_init saves what each of the four hook variables held and puts the
\* module's handler there; _PG_fini puts back exactly what each held before
\* _PG_init; and while installed every hook invocation calls the saved
\* handler, or the standard step when NULL was saved.
C13_HookChainRoundTrip ==
    /\ (loaded_over # NotLoaded /\ Installed) =>
           /\ prev_ExecutorStart = loaded_over.Start
           /\ prev_ExecutorRun = loaded_over.Run
           /\ prev_ExecutorFinish = loaded_over.Finish
           /\ prev_ExecutorEnd = loaded_over.End
    /\ (loaded_over # NotLoaded /\ ~Installed) =>
           /\ ExecutorStart_hook = loaded_over.Start
           /\ ExecutorRun_hook = loaded_over.Run
           /\ ExecutorFinish_hook = loaded_over.Finish
           /\ ExecutorEnd_hook = loaded_over.End
    /\ \A f \in Frames :
           /\ f.called.start = RecordedChain.start
           /\ f.pc # "started" => f.called.run = RecordedChain.run
           /\ f.pc \notin {"started", "running", "ran"} =>
                  f.called.finish = RecordedChain.finish
    /\ endResult.outcome # "none" =>
           /\ endResult.called = RecordedChain
           /\ endResult.delegate = Chain(loaded_over.End, "standard_ExecutorEnd")

\* the tag column a record gets under the configured qflash_log_hash
ConfiguredTag == IF qflash_log_hash = "" THEN "NULL" ELSE qflash_log_hash

\* C14: the record of a log_InRelation call carries the qflash_log_hash
\* configured at the time of the call: null iff that string is empty, the
\* string itself otherwise; so it is for every call in progress and for every
\* call that returns with its record written.
C14_RecordCarriesConfiguredTag ==
    /\ [](\A f \in Frames :
             f.pc \in {"spi_execute", "spi_wait", "spi_done"} =>
                 /\ f.log.hash = ConfiguredTag
                 /\ (f.log.hash = "NULL") = (qflash_log_hash = ""))
    /\ [][(endResult'.outcome = "persisted" /\ endResult' # endResult) =>
             /\ endResult'.log.hash = ConfiguredTag
             /\ endResult'.nrec = 1]_vars

\* a record was written with the tag "h1", and qflash.log_hash was emptied
\* after the call returned
C14_Witness ==
    /\ endResult.outcome = "persisted"
    /\ endResult.nrec = 1
    /\ endResult.log.hash = "h1"
    /\ qflash_log_hash = ""

\* C15: a log_InRelation call takes exactly one of three branches: SPI_push
\* when nesting_level > nesting_spi_level on entry, SPI_pop when it is
\* smaller, SPI_connect only when the two are equal on entry; a call that
\* pushed or popped does not connect.
C15_OneBranchPerCall ==
    \A f \in Frames :
        f.log.branch # "none" =>
            /\ (f.log.branch = "push") = (f.log.level > f.log.spi_level)
            /\ (f.log.branch = "pop") = (f.log.level < f.log.spi_level)
            /\ (f.log.branch = "equal") = (f.log.level = f.log.spi_level)
            /\ f.log.connected => f.log.branch = "equal"

\* C16: a log_InRelation call releases a connection (SPI_finish) if and only
\* if that call established one (SPI_connect): a call that took the pop branch
\* releases nothing, and the insert is prepared and executed only under a
\* connection the call established.
C16_ReleaseIffConnected ==
    /\ endResult.outcome = "persisted" =>
           endResult.log.released = endResult.log.connected
    /\ \A f \in Frames :
           (f.pc \in {"spi_execute", "spi_wait", "spi_done"} /\ f.log.failed = "no") =>
               f.log.connected

\* C17: once the depth comparison of a log_InRelation call has run,
\* nesting_spi_level equals the nesting_level of that call, whether the call
\* goes on or raises; and no step other than log_InRelation changes
\* nesting_spi_level.
C17_SpiLevelTracksLevel ==
    /\ [](\A f \in Frames :
             (f = Top /\ f.pc = "spi_execute") =>
                 /\ nesting_spi_level = f.log.level
                 /\ nesting_spi_level = nesting_level)
    /\ [][nesting_spi_level' # nesting_spi_level =>
             \E t \in 0..MaxTime, fault \in SpiFaults : EndPersist(t, fault)]_vars

\* a call that popped has raised at SPI_prepare
C17_Witness ==
    /\ stack # <<>>
    /\ Top.pc = "spi_execute"
    /\ Top.log.branch = "pop"
    /\ Top.log.failed = "prepare"
    /\ aborting.src = "persist"
    /\ nesting_spi_level = nesting_level

\* the explain_ExecutorRun and explain_ExecutorFinish invocations on the call
\* stack
ActiveRunFinish == {i \in 1..Len(stack) : stack[i].pc \in {"running", "finishing"}}

\* C18: nesting_level is the number of explain_ExecutorRun and
\* explain_ExecutorFinish invocations active on the call stack, hence never
\* negative; an error passing through one of them decrements nesting_level
\* once and goes on propagating to the frame below.
C18_LevelCountsActiveHooks ==
    /\ [](/\ nesting_level = Cardinality(ActiveRunFinish)
          /\ nesting_level >= 0)
    /\ [][(aborting # NoAbort /\ Top.pc \in {"running", "finishing"}) =>
             /\ nesting_level' = nesting_level - 1
             /\ stack' = Rest(stack)
             /\ stack' # <<>> => aborting' = aborting]_vars

\* an error raised in the finish step of an execution nested two deep has
\* left the innermost hook and is propagating through the two below
C18_Witness ==
    /\ aborting.src = "finish"
    /\ aborting.depth = 3
    /\ Len(stack) = 2
    /\ nesting_level = 2

\* C19: an execution that explain_ExecutorEnd finds eligible has a totaltime
\* (InstrEndLoop of line 322 gets a handle), also when qflash.enabled,
\* qflash.log_nested or the resolution of the sink changed after its
\* explain_ExecutorStart.
C19_EligibleHasInstrument ==
    /\ ~crashed
    /\ \A f \in Frames :
           (/\ f = Top
            /\ f.pc = "finished"
            /\ aborting = NoAbort
            /\ qflash_enabled(f, qflash_log_namespace_oid, qflash_log_rel_oid).res) =>
               f.totaltime

\* C20: over every sequence of log_InRelation calls, the SPI_pop calls made
\* so far never outnumber the SPI_push calls made so far.
C20_PopsNeverExceedPushes == spi_curid >= 0

====
